---- MODULE Spec2Model ----
(***************************************************************************)
(* Layered auto-placement of flow nodes (internal/flowbuilder/placement.go) *)
(* as a state machine: one call of Grid.AutoPlacementAlgorithm walks        *)
(* through its stages, the worklist loop of calculateLevels one dequeue at  *)
(* a time, the ranges over the levelGroups map in an arbitrary key order.   *)
(***************************************************************************)
EXTENDS Integers, Sequences, FiniteSets, TLC

\* ------------------------------------------------------------------ bounds
\* Node lists <<1, ..., n>> with n <= MaxNodes and at most MaxEdges edges are
\* enumerated exhaustively; chains and edgeless rows go further.
MaxNodes == 3
MaxEdges == 3
MaxChain == 5
MaxRow == 5
\* The worklist loop is not followed once a level reaches LevelCap (only a
\* cyclic input gets there).
LevelCap == 7

\* Ids that are never in a node list: an edge end naming one is "unknown".
UnknownIds ==
    {0}

\* ------------------------------------------------------------- arithmetic
\* Go's integer division truncates toward zero.
GoDiv(a, b) ==
    IF a >= 0 THEN a \div b ELSE -((-a) \div b)

Abs(a) ==
    IF a >= 0 THEN a ELSE -a

Max(S) ==
    CHOOSE x \in S : \A y \in S : y <= x

Min(S) ==
    CHOOSE x \in S : \A y \in S : x <= y

Range(s) ==
    {s[i] : i \in 1..Len(s)}

\* The orders in which a range over a map with key set S can visit the keys.
Perms(S) ==
    {p \in [1..Cardinality(S) -> S] : \A i, j \in 1..Cardinality(S) : p[i] = p[j] => i = j}

\* ------------------------------------------------------------------ types
Position(x, y) ==
    [X |-> x, Y |-> y]

NodePlacement(id, g) ==
    [ID |-> id, Position |-> Position(0, 0), Width |-> g.NodeWidth, Height |-> g.NodeHeight]

Edge(from, to) ==
    [From |-> from, To |-> to]

NewGrid ==
    [Width |-> 2000, Height |-> 1000, NodeWidth |-> 220, NodeHeight |-> 80,
     PaddingX |-> 60, PaddingY |-> 100]

\* A canvas narrower than two node boxes, with odd sizes and paddings.
CompactGrid ==
    [Width |-> 505, Height |-> 333, NodeWidth |-> 220, NodeHeight |-> 80,
     PaddingX |-> 61, PaddingY |-> 101]

\* A canvas smaller than the 100-unit base offsets of the positioner.
NarrowGrid ==
    [Width |-> 90, Height |-> 70, NodeWidth |-> 220, NodeHeight |-> 80,
     PaddingX |-> 60, PaddingY |-> 100]

\* A canvas without padding: neighbours stand edge to edge.
TightGrid ==
    [Width |-> 600, Height |-> 400, NodeWidth |-> 220, NodeHeight |-> 80,
     PaddingX |-> 0, PaddingY |-> 0]

Grids ==
    {NewGrid, CompactGrid, NarrowGrid, TightGrid}

\* ------------------------------------------------------------------ state
VARIABLES
    grid,         \* the receiver g
    nodes,        \* the argument nodes, a sequence of NodePlacement
    edges,        \* the argument edges, a sequence of Edge
    pc,           \* where the call is
    levels,       \* calculateLevels' levels map (a function on the keys set so far)
    queue,        \* calculateLevels' worklist
    dequeues,     \* how many times the worklist loop body has run
    levelGroups,  \* groupByLevel's map: level -> sequence of ids
    positions,    \* the positions map: id -> Position
    iteration,    \* resolveCollisions' pass counter
    visited,      \* minimizeEdgeCrossings: the keys its range has visited
    result        \* the returned slice

\* CalculateNewNodePosition: g is grid, existingNodes is nodes, edges is edges.
VARIABLES
    connectedFrom,  \* the argument connectedFrom, a sequence of ids
    newPosition,    \* the locals newX, newY, and the Position returned
    shifts          \* how many times a loop over isPositionOccupied has run its body

newNodeVars ==
    <<connectedFrom, newPosition, shifts>>

\* Removing a node from a flow.
VARIABLES
    flow,           \* the flow's nodes and edges (FlowGraph, or the definition fetched)
    nodeID,         \* the id to remove
    update,         \* the update requests sent, a sequence of definitions
    err             \* the error returned

removeVars ==
    <<flow, nodeID, update, err>>

vars ==
    <<grid, nodes, edges, pc, levels, queue, dequeues, levelGroups, positions,
      iteration, visited, result, newNodeVars, removeVars>>

NodeIds ==
    {nodes[i].ID : i \in 1..Len(nodes)}

\* The empty map.
EmptyMap ==
    [k \in {} |-> 0]

\* m with m[k] set to v, as a Go map assignment does.
Put(m, k, v) ==
    [x \in (DOMAIN m) \cup {k} |-> IF x = k THEN v ELSE m[x]]

\* ------------------------------------------------------- calculateLevels
\* incoming[id], as a sequence of the sources of the edges into id.
Incoming(es, id) ==
    SelectSeq(es, LAMBDA e : e.To = id)

\* Roots with the test for incoming edges lost: every node is seeded.
RootsAllNodes(ns, es) ==
    ns

\* The nodes seeded at level 0, in node-list order.
Roots(ns, es) ==
    SelectSeq(ns, LAMBDA n : Len(Incoming(es, n.ID)) = 0)

SeedLevels(ns, es) ==
    [id \in {Roots(ns, es)[i].ID : i \in 1..Len(Roots(ns, es))} |-> 0]

SeedQueue(ns, es) ==
    [i \in 1..Len(Roots(ns, es)) |-> Roots(ns, es)[i].ID]

\* ShouldRaise as a first-visit test: a level, once set, is never raised.
ShouldRaiseFirstVisit(lv, to, targetLevel) ==
    to \notin DOMAIN lv

\* The test of line 121: the target gets the candidate level.
ShouldRaise(lv, to, targetLevel) ==
    to \notin DOMAIN lv \/ targetLevel > lv[to]

\* PopFront with the reslicing lost: the head stays in the worklist.
PopFrontKeepsHead(q) ==
    q

\* The worklist after `queue = queue[1:]`.
PopFront(q) ==
    Tail(q)

\* The inner loop over edges (lines 118-126) from edge i on, for the dequeued
\* node current whose level was read as currentLevel before the loop.
RECURSIVE RelaxFrom(_, _, _, _, _, _)
RelaxFrom(i, es, current, currentLevel, lv, q) ==
    IF i > Len(es) THEN [levels |-> lv, queue |-> q]
    ELSE IF es[i].From = current /\ ShouldRaise(lv, es[i].To, currentLevel + 1)
         THEN RelaxFrom(i + 1, es, current, currentLevel,
                        Put(lv, es[i].To, currentLevel + 1), Append(q, es[i].To))
         ELSE RelaxFrom(i + 1, es, current, currentLevel, lv, q)

\* One iteration of the worklist loop (lines 112-127).
DequeueStep(es, lv, q) ==
    RelaxFrom(1, es, Head(q), lv[Head(q)], lv, PopFront(q))

\* Lines 129-134: nodes the worklist never reached get level 0.
WithDefaults(ns, lv) ==
    [id \in (DOMAIN lv) \cup {ns[i].ID : i \in 1..Len(ns)} |->
        IF id \in DOMAIN lv THEN lv[id] ELSE 0]

\* ----------------------------------------------------------- groupByLevel
\* groups[level]: the ids of that level, each put at the head of its group.
GroupByLevelPrepending(ns, lv) ==
    [l \in {lv[ns[i].ID] : i \in 1..Len(ns)} |->
        LET members == SelectSeq(ns, LAMBDA n : lv[n.ID] = l)
        IN  [i \in 1..Len(members) |-> members[Len(members) + 1 - i].ID]]

\* groups[level]: the ids of that level, appended in node-list order.
GroupByLevel(ns, lv) ==
    [l \in {lv[ns[i].ID] : i \in 1..Len(ns)} |->
        LET members == SelectSeq(ns, LAMBDA n : lv[n.ID] = l)
        IN  [i \in 1..Len(members) |-> members[i].ID]]

\* ------------------------------------------------ calculateInitialPositions
\* sort.Ints over the keys of a map.
RECURSIVE SortedKeys(_)
SortedKeys(S) ==
    IF S = {} THEN <<>> ELSE <<Min(S)>> \o SortedKeys(S \ {Min(S)})

\* The x of the first slot without the clamp at 100.
StartXUnclamped(g, numNodes) ==
    GoDiv(g.Width - ((numNodes * g.NodeWidth) + ((numNodes - 1) * g.PaddingX)), 2)

\* Lines 171-175 (and 274-278): the x of the first slot of a row of numNodes.
StartX(g, numNodes) ==
    LET totalWidth == (numNodes * g.NodeWidth) + ((numNodes - 1) * g.PaddingX)
        startX == GoDiv(g.Width - totalWidth, 2)
    IN  IF startX < 100 THEN 100 ELSE startX

\* The x of slot i at a pitch of the node width alone.
SlotXWithoutPadding(g, startX, i) ==
    startX + (i * g.NodeWidth)

\* Line 178 (and 281): the x of slot i, 0-based.
SlotX(g, startX, i) ==
    startX + (i * (g.NodeWidth + g.PaddingX))

\* LevelY with the padding added once instead of once per level.
LevelYPaddingOnce(g, level) ==
    100 + (level * g.NodeHeight) + g.PaddingY

\* Line 168.
LevelY(g, level) ==
    100 + (level * (g.NodeHeight + g.PaddingY))

\* Every node of the row on the first slot.
RECURSIVE PlaceRowOnFirstSlot(_, _, _, _, _, _)
PlaceRowOnFirstSlot(g, row, k, startX, y, pos) ==
    IF k > Len(row) THEN pos
    ELSE PlaceRowOnFirstSlot(g, row, k + 1, startX, y,
                             Put(pos, row[k], Position(SlotX(g, startX, 0), y)))

\* Lines 177-180 from the row's k-th id (1-based) on.
RECURSIVE PlaceRow(_, _, _, _, _, _)
PlaceRow(g, row, k, startX, y, pos) ==
    IF k > Len(row) THEN pos
    ELSE PlaceRow(g, row, k + 1, startX, y,
                  Put(pos, row[k], Position(SlotX(g, startX, k - 1), y)))

\* Lines 163-181 from the k-th sorted level on.
RECURSIVE PlaceLevels(_, _, _, _, _)
PlaceLevels(g, groups, sorted, k, pos) ==
    IF k > Len(sorted) THEN pos
    ELSE PlaceLevels(g, groups, sorted, k + 1,
                     PlaceRow(g, groups[sorted[k]], 1,
                              StartX(g, Len(groups[sorted[k]])), LevelY(g, sorted[k]), pos))

CalculateInitialPositions(g, groups) ==
    PlaceLevels(g, groups, SortedKeys(DOMAIN groups), 1, EmptyMap)

\* ------------------------------------------------------- resolveCollisions
\* The test on the x distance alone.
CheckCollisionOnX(g, pos1, pos2) ==
    Abs(pos1.X - pos2.X) < g.NodeWidth + GoDiv(g.PaddingX, 2)

\* math.Abs of an integer difference against an integer threshold: exact.
CheckCollision(g, pos1, pos2) ==
    /\ Abs(pos1.X - pos2.X) < g.NodeWidth + GoDiv(g.PaddingX, 2)
    /\ Abs(pos1.Y - pos2.Y) < g.NodeHeight + GoDiv(g.PaddingY, 2)

\* The pair pushed apart with hasCollision left as it was.
ResolvePairFlagUnset(g, row, i, j, acc) ==
    LET pos1 == acc.positions[row[i]]
        pos2 == acc.positions[row[j]]
        midpoint == GoDiv(pos1.X + pos2.X, 2)
        half == GoDiv(g.NodeWidth + g.PaddingX, 2)
    IN  IF CheckCollision(g, pos1, pos2)
        THEN [positions |-> Put(Put(acc.positions, row[i], Position(midpoint - half, pos1.Y)),
                                row[j], Position(midpoint + half, pos2.Y)),
              hasCollision |-> acc.hasCollision]
        ELSE acc

\* Lines 200-209 for the pair (row[i], row[j]); acc carries the positions map
\* and the hasCollision flag.
ResolvePair(g, row, i, j, acc) ==
    LET pos1 == acc.positions[row[i]]
        pos2 == acc.positions[row[j]]
        midpoint == GoDiv(pos1.X + pos2.X, 2)
        half == GoDiv(g.NodeWidth + g.PaddingX, 2)
    IN  IF CheckCollision(g, pos1, pos2)
        THEN [positions |-> Put(Put(acc.positions, row[i], Position(midpoint - half, pos1.Y)),
                                row[j], Position(midpoint + half, pos2.Y)),
              hasCollision |-> TRUE]
        ELSE acc

\* Lines 198-211: the two nested loops over one level, from the pair (i, j) on.
RECURSIVE ResolveRow(_, _, _, _, _)
ResolveRow(g, row, i, j, acc) ==
    IF i > Len(row) THEN acc
    ELSE IF j > Len(row) THEN ResolveRow(g, row, i + 1, i + 2, acc)
    ELSE IF CheckCollision(g, acc.positions[row[i]], acc.positions[row[j]])
    THEN ResolveRow(g, row, i, j + 1, ResolvePair(g, row, i, j, acc))
    ELSE ResolveRow(g, row, i, j + 1, acc)

\* One pass with hasCollision set to false at the start of every level.
RECURSIVE ResolvePassFlagPerLevel(_, _, _, _, _)
ResolvePassFlagPerLevel(g, groups, order, k, acc) ==
    IF k > Len(order) THEN acc
    ELSE ResolvePassFlagPerLevel(g, groups, order, k + 1,
            ResolveRow(g, groups[order[k]], 1, 2,
                       [positions |-> acc.positions, hasCollision |-> FALSE]))

\* One pass (lines 194-212), the levels visited in the given order.
RECURSIVE ResolvePass(_, _, _, _, _)
ResolvePass(g, groups, order, k, acc) ==
    IF k > Len(order) THEN acc
    ELSE ResolvePass(g, groups, order, k + 1, ResolveRow(g, groups[order[k]], 1, 2, acc))

\* Line 191.
maxIterations == 10

\* --------------------------------------------------- minimizeEdgeCrossings
\* Lines 251-258 from edge i on: the sum of the x of the placed sources of the
\* edges into id, and their number.
RECURSIVE ParentSum(_, _, _, _, _)
ParentSum(es, pos, id, i, acc) ==
    IF i > Len(es) THEN acc
    ELSE IF es[i].To = id /\ es[i].From \in DOMAIN pos
         THEN ParentSum(es, pos, id, i + 1,
                        [totalX |-> acc.totalX + pos[es[i].From].X, count |-> acc.count + 1])
         ELSE ParentSum(es, pos, id, i + 1, acc)

\* The score of a node always its own x.
NodeScoreOwnX(es, pos, id) ==
    [id |-> id, num |-> pos[id].X, den |-> 1]

\* Lines 260-264. The float64 score totalX / count is kept as the fraction
\* num / den (den > 0); the sums are far below 2^53, so the float sum is exact.
NodeScore(es, pos, id) ==
    LET sum == ParentSum(es, pos, id, 1, [totalX |-> 0, count |-> 0])
    IN  IF sum.count > 0
        THEN [id |-> id, num |-> sum.totalX, den |-> sum.count]
        ELSE [id |-> id, num |-> pos[id].X, den |-> 1]

\* The comparison the other way round.
ScoreGreater(a, b) ==
    a.num * b.den > b.num * a.den

\* Line 269: scores[i].score < scores[j].score.
ScoreLess(a, b) ==
    a.num * b.den < b.num * a.den

\* sort.Slice on fewer than 12 elements is an insertion sort: the element x
\* moves left past every neighbour it is less than.
RECURSIVE InsertScore(_, _, _)
InsertScore(sorted, x, j) ==
    IF j >= 1 /\ ScoreLess(x, sorted[j])
    THEN InsertScore(sorted, x, j - 1)
    ELSE SubSeq(sorted, 1, j) \o <<x>> \o SubSeq(sorted, j + 1, Len(sorted))

RECURSIVE SortScores(_, _, _)
SortScores(scores, i, sorted) ==
    IF i > Len(scores) THEN sorted
    ELSE SortScores(scores, i + 1, InsertScore(sorted, scores[i], Len(sorted)))

\* Lines 280-284 from the k-th sorted score on.
RECURSIVE ReassignX(_, _, _, _, _)
ReassignX(g, scores, k, startX, pos) ==
    IF k > Len(scores) THEN pos
    ELSE ReassignX(g, scores, k + 1, startX,
                   Put(pos, scores[k].id,
                       Position(SlotX(g, startX, k - 1), pos[scores[k].id].Y)))

\* The body of the range loop without the skip of level 0.
MinimizeLevelNoSkip(g, es, groups, level, pos) ==
    LET row == groups[level]
        scores == [i \in 1..Len(row) |-> NodeScore(es, pos, row[i])]
        sorted == SortScores(scores, 1, <<>>)
    IN  ReassignX(g, sorted, 1, StartX(g, Len(sorted)), pos)

\* The body of the range loop (lines 236-284) for one level.
MinimizeLevel(g, es, groups, level, pos) ==
    IF level = 0 THEN pos
    ELSE LET row == groups[level]
             scores == [i \in 1..Len(row) |-> NodeScore(es, pos, row[i])]
             sorted == SortScores(scores, 1, <<>>)
         IN  ReassignX(g, sorted, 1, StartX(g, Len(sorted)), pos)

\* ------------------------------------------------------- fineTunePositions
\* Lines 296-312: minX and minY start at the canvas size, maxX and maxY at 0.
FineTuneBox(g, pos) ==
    [minX |-> Min({g.Width} \cup {pos[id].X : id \in DOMAIN pos}),
     maxX |-> Max({0} \cup {pos[id].X : id \in DOMAIN pos}),
     minY |-> Min({g.Height} \cup {pos[id].Y : id \in DOMAIN pos}),
     maxY |-> Max({0} \cup {pos[id].Y : id \in DOMAIN pos})]

\* Each coordinate mirrored inside the centred box.
FineTunePositionsMirrored(g, pos) ==
    LET box == FineTuneBox(g, pos)
        graphWidth == box.maxX - box.minX + g.NodeWidth
        graphHeight == box.maxY - box.minY + g.NodeHeight
        offsetX == GoDiv(g.Width - graphWidth, 2)
        offsetY == GoDiv(g.Height - graphHeight, 2)
    IN  [id \in DOMAIN pos |->
            Position(box.maxX - pos[id].X + offsetX, box.maxY - pos[id].Y + offsetY)]

FineTunePositions(g, pos) ==
    LET box == FineTuneBox(g, pos)
        graphWidth == box.maxX - box.minX + g.NodeWidth
        graphHeight == box.maxY - box.minY + g.NodeHeight
        offsetX == GoDiv(g.Width - graphWidth, 2)
        offsetY == GoDiv(g.Height - graphHeight, 2)
    IN  [id \in DOMAIN pos |->
            Position(pos[id].X - box.minX + offsetX, pos[id].Y - box.minY + offsetY)]

\* ------------------------------------------- AutoPlacementAlgorithm, 72-83
\* The result filled from its last index down.
CollectReversed(ns, pos) ==
    [i \in 1..Len(ns) |->
        LET n == ns[Len(ns) + 1 - i]
        IN  IF n.ID \in DOMAIN pos THEN [n EXCEPT !.Position = pos[n.ID]] ELSE n]

Collect(ns, pos) ==
    [i \in 1..Len(ns) |->
        IF ns[i].ID \in DOMAIN pos
        THEN [ns[i] EXCEPT !.Position = pos[ns[i].ID]]
        ELSE ns[i]]

\* ------------------------------------------------- the stages, run to the end
\* The worklist loop run until the worklist is empty (it has to get empty).
RECURSIVE RunWorklist(_, _, _)
RunWorklist(es, lv, q) ==
    IF q = <<>> THEN lv
    ELSE RunWorklist(es, DequeueStep(es, lv, q).levels, DequeueStep(es, lv, q).queue)

CalculateLevels(ns, es) ==
    WithDefaults(ns, RunWorklist(es, SeedLevels(ns, es), SeedQueue(ns, es)))

\* The pass loop of resolveCollisions from pass number it on.
RECURSIVE ResolveCollisions(_, _, _, _, _)
ResolveCollisions(g, groups, order, it, pos) ==
    IF it >= maxIterations THEN pos
    ELSE LET pass == ResolvePass(g, groups, order, 1,
                                 [positions |-> pos, hasCollision |-> FALSE])
         IN  IF pass.hasCollision
             THEN ResolveCollisions(g, groups, order, it + 1, pass.positions)
             ELSE pass.positions

\* The range loop of minimizeEdgeCrossings, the levels visited in the given order.
RECURSIVE MinimizeEdgeCrossings(_, _, _, _, _, _)
MinimizeEdgeCrossings(g, es, groups, order, k, pos) ==
    IF k > Len(order) THEN pos
    ELSE MinimizeEdgeCrossings(g, es, groups, order, k + 1,
                               MinimizeLevel(g, es, groups, order[k], pos))

\* One whole call, its two map ranges visiting the levels in the given order.
AutoPlacementAlgorithm(g, ns, es, order) ==
    IF Len(ns) = 0 THEN ns
    ELSE LET groups == GroupByLevel(ns, CalculateLevels(ns, es))
             placed == CalculateInitialPositions(g, groups)
             resolved == ResolveCollisions(g, groups, order, 0, placed)
             ordered == MinimizeEdgeCrossings(g, es, groups, order, 1, resolved)
         IN  Collect(ns, FineTunePositions(g, ordered))

\* ----------------------------------------------------------------- inputs
\* The subsets of S with at most k elements.
RECURSIVE SubsetsUpTo(_, _)
SubsetsUpTo(S, k) ==
    IF k = 0 THEN {{}}
    ELSE LET smaller == SubsetsUpTo(S, k - 1)
         IN  smaller \cup {s \cup {x} : s \in smaller, x \in S}

EdgeKey(e) ==
    (e.From * (MaxNodes + MaxChain + MaxRow + 8)) + e.To

\* An edge set as an edge list, by ascending and by descending (From, To).
RECURSIVE Ascending(_)
Ascending(S) ==
    IF S = {} THEN <<>>
    ELSE LET first == CHOOSE e \in S : \A f \in S : EdgeKey(e) <= EdgeKey(f)
         IN  <<first>> \o Ascending(S \ {first})

Descending(S) ==
    [i \in 1..Cardinality(S) |-> Ascending(S)[Cardinality(S) + 1 - i]]

\* Every edge set of at most MaxEdges edges over n nodes and the unknown ids.
SmallGraphs ==
    {[n |-> n, es |-> S] :
        n \in 0..MaxNodes,
        S \in SubsetsUpTo({Edge(a, b) : a, b \in (1..MaxNodes) \cup UnknownIds}, MaxEdges)}

Chain(k) ==
    [n |-> k, es |-> {Edge(i, i + 1) : i \in 1..(k - 1)}]

Row(k) ==
    [n |-> k, es |-> {}]

Diamond ==
    [n |-> 4, es |-> {Edge(1, 2), Edge(1, 3), Edge(2, 4), Edge(3, 4)}]

\* Two roots, their children listed in the opposite order, and a child of each.
Crossing ==
    [n |-> 6, es |-> {Edge(2, 3), Edge(1, 4), Edge(3, 5), Edge(4, 6)}]

\* Two roots and a child of each, the children listed in the opposite order.
Swapped ==
    [n |-> 4, es |-> {Edge(1, 4), Edge(2, 3)}]

\* Five roots and two children: one under the roots 1, 2 and 5, listed first,
\* the other under the roots 2 and 3.
Spread ==
    [n |-> 7, es |-> {Edge(1, 6), Edge(2, 6), Edge(5, 6), Edge(2, 7), Edge(3, 7)}]

Graphs ==
    {gr \in SmallGraphs : \A e \in gr.es : e.From <= gr.n /\ e.To <= gr.n}
        \cup {Chain(k) : k \in 1..MaxChain} \cup {Row(k) : k \in 1..MaxRow}
        \cup {Diamond, Crossing, Swapped, Spread}

\* ------------------------------------------------------------ the machine
\* No new node is being placed.
NoNewNode ==
    /\ connectedFrom = <<>>
    /\ newPosition = Position(0, 0)
    /\ shifts = 0

\* No node is being removed.
NoRemoval ==
    /\ flow = [Nodes |-> <<>>, Edges |-> <<>>]
    /\ nodeID = 0
    /\ update = <<>>
    /\ err = ""

\* Every graph on every canvas, and with its edge list reversed on the default
\* canvas (the edge order reaches the worklist, which does not read the canvas).
Init ==
    /\ grid \in Grids
    /\ \E gr \in Graphs :
        /\ nodes = [i \in 1..gr.n |-> NodePlacement(i, grid)]
        /\ \/ edges = Ascending(gr.es)
           \/ grid = NewGrid /\ edges = Descending(gr.es)
    /\ pc = "start"
    /\ levels = EmptyMap
    /\ queue = <<>>
    /\ dequeues = 0
    /\ levelGroups = EmptyMap
    /\ positions = EmptyMap
    /\ iteration = 0
    /\ visited = {}
    /\ result = <<>>
    /\ NoNewNode
    /\ NoRemoval

\* Lines 50-52.
ReturnEmpty ==
    /\ pc = "start"
    /\ Len(nodes) = 0
    /\ result' = nodes
    /\ pc' = "done"
    /\ UNCHANGED <<grid, nodes, edges, levels, queue, dequeues, levelGroups, positions,
                   iteration, visited>>
    /\ UNCHANGED <<newNodeVars, removeVars>>

\* Lines 94-109.
SeedRoots ==
    /\ pc = "start"
    /\ Len(nodes) # 0
    /\ levels' = SeedLevels(nodes, edges)
    /\ queue' = SeedQueue(nodes, edges)
    /\ pc' = "bfs"
    /\ UNCHANGED <<grid, nodes, edges, dequeues, levelGroups, positions, iteration,
                   visited, result>>
    /\ UNCHANGED <<newNodeVars, removeVars>>

\* Lines 112-127, one iteration.
Dequeue ==
    /\ pc = "bfs"
    /\ queue # <<>>
    /\ levels[Head(queue)] < LevelCap
    /\ LET next == DequeueStep(edges, levels, queue)
       IN  /\ levels' = next.levels
           /\ queue' = next.queue
    /\ dequeues' = dequeues + 1
    /\ UNCHANGED <<grid, nodes, edges, pc, levelGroups, positions, iteration, visited,
                   result>>
    /\ UNCHANGED <<newNodeVars, removeVars>>

\* Lines 129-136.
DefaultLevels ==
    /\ pc = "bfs"
    /\ queue = <<>>
    /\ levels' = WithDefaults(nodes, levels)
    /\ pc' = "group"
    /\ UNCHANGED <<grid, nodes, edges, queue, dequeues, levelGroups, positions, iteration,
                   visited, result>>
    /\ UNCHANGED <<newNodeVars, removeVars>>

\* Line 58.
Group ==
    /\ pc = "group"
    /\ levelGroups' = GroupByLevel(nodes, levels)
    /\ pc' = "place"
    /\ UNCHANGED <<grid, nodes, edges, levels, queue, dequeues, positions, iteration,
                   visited, result>>
    /\ UNCHANGED <<newNodeVars, removeVars>>

\* Line 61.
Place ==
    /\ pc = "place"
    /\ positions' = CalculateInitialPositions(grid, levelGroups)
    /\ iteration' = 0
    /\ pc' = "resolve"
    /\ UNCHANGED <<grid, nodes, edges, levels, queue, dequeues, levelGroups, visited,
                   result>>
    /\ UNCHANGED <<newNodeVars, removeVars>>

\* Lines 193-217: one pass of the loop, or its exit at maxIterations. The range
\* over levelGroups visits the levels in any order.
Resolve ==
    /\ pc = "resolve"
    /\ IF iteration < maxIterations
       THEN \E order \in Perms(DOMAIN levelGroups) :
                LET pass == ResolvePass(grid, levelGroups, order, 1,
                                        [positions |-> positions, hasCollision |-> FALSE])
                IN  /\ positions' = pass.positions
                    /\ IF pass.hasCollision
                       THEN iteration' = iteration + 1 /\ pc' = pc
                       ELSE iteration' = iteration /\ pc' = "minimize"
       ELSE UNCHANGED <<positions, iteration>> /\ pc' = "minimize"
    /\ visited' = {}
    /\ UNCHANGED <<grid, nodes, edges, levels, queue, dequeues, levelGroups, result>>
    /\ UNCHANGED <<newNodeVars, removeVars>>

\* Lines 235-285: the range over levelGroups takes a level it has not visited.
Minimize ==
    /\ pc = "minimize"
    /\ \E level \in (DOMAIN levelGroups) \ visited :
        /\ positions' = MinimizeLevel(grid, edges, levelGroups, level, positions)
        /\ visited' = visited \cup {level}
    /\ UNCHANGED <<grid, nodes, edges, pc, levels, queue, dequeues, levelGroups, iteration,
                   result>>
    /\ UNCHANGED <<newNodeVars, removeVars>>

\* Line 70, once the range is over.
FineTune ==
    /\ pc = "minimize"
    /\ visited = DOMAIN levelGroups
    /\ positions' = FineTunePositions(grid, positions)
    /\ pc' = "collect"
    /\ UNCHANGED <<grid, nodes, edges, levels, queue, dequeues, levelGroups, iteration,
                   visited, result>>
    /\ UNCHANGED <<newNodeVars, removeVars>>

\* Lines 72-83.
Return ==
    /\ pc = "collect"
    /\ result' = Collect(nodes, positions)
    /\ pc' = "done"
    /\ UNCHANGED <<grid, nodes, edges, levels, queue, dequeues, levelGroups, positions,
                   iteration, visited>>
    /\ UNCHANGED <<newNodeVars, removeVars>>


Next ==
    \/ ReturnEmpty
    \/ SeedRoots
    \/ Dequeue
    \/ DefaultLevels
    \/ Group
    \/ Place
    \/ Resolve
    \/ Minimize
    \/ FineTune
    \/ Return

Spec ==
    Init /\ [][Next]_vars

\* ------------------------------------------------- vocabulary of the claims
EdgeSet ==
    Range(edges)

\* An edge that connects two input nodes.
Connects(e) ==
    e.From \in NodeIds /\ e.To \in NodeIds

\* The edge list without the edges that name an unknown id.
KnownEdges(ns, es) ==
    SelectSeq(es, LAMBDA e : /\ e.From \in {ns[i].ID : i \in 1..Len(ns)}
                              /\ e.To \in {ns[i].ID : i \in 1..Len(ns)})

Successors(es, S) ==
    {e.To : e \in {f \in Range(es) : f.From \in S}}

\* The ids reachable from the ids of S by one or more edges.
RECURSIVE ReachFrom(_, _, _)
ReachFrom(es, frontier, seen) ==
    LET new == Successors(es, frontier) \ seen
    IN  IF new = {} THEN seen ELSE ReachFrom(es, new, seen \cup new)

Descendants(es, id) ==
    ReachFrom(es, {id}, {})

EndIds(es) ==
    {e.From : e \in Range(es)} \cup {e.To : e \in Range(es)}

\* The edge list has a cycle (over all the ids it names).
HasCycle(es) ==
    \E id \in EndIds(es) : id \in Descendants(es, id)

\* The input nodes with no incoming edge: the nodes the worklist is seeded with.
RootIds(ns, es) ==
    {ns[i].ID : i \in {j \in 1..Len(ns) : \A e \in Range(es) : e.To # ns[j].ID}}

\* The ids some root reaches (the roots included).
ReachedIds(ns, es) ==
    RootIds(ns, es) \cup ReachFrom(es, RootIds(ns, es), {})

\* Some id on a cycle is reachable from a root.
RootReachesCycle(ns, es) ==
    \E id \in ReachedIds(ns, es) : id \in Descendants(es, id)

\* The length of the longest edge path from a root to id, for an acyclic edge
\* list; -1 when no root reaches id.
RECURSIVE LongestFromRoot(_, _, _)
LongestFromRoot(ns, es, id) ==
    IF id \in RootIds(ns, es) THEN 0
    ELSE LET preds == {e.From : e \in {f \in Range(es) : f.To = id}} \cap ReachedIds(ns, es)
         IN  IF preds = {} THEN -1
             ELSE 1 + Max({LongestFromRoot(ns, es, p) : p \in preds})

\* calculateLevels has just returned the level map.
Levelled ==
    pc = "group"

\* The bound on the iterations of the worklist loop: each of the n nodes is seeded
\* at most once, and each of at most e targets is raised to at most e levels.
DequeueBound ==
    Len(nodes) + (Len(edges) * Len(edges))

\* The worklist loop can go on: the model's level cap does not stop it.
LoopNotCapped ==
    (pc = "bfs" /\ queue # <<>>) => levels[Head(queue)] < LevelCap

\* ----------------------------------------------------------------- claims
\* C1: for every acyclic input, the final level map has level(to) > level(from)
\* for every edge of the edge list that connects two input nodes.
C1_EdgesRaiseLevel ==
    (Levelled /\ ~HasCycle(edges)) =>
        \A e \in EdgeSet : Connects(e) => levels[e.To] > levels[e.From]

\* C2: for every acyclic input, the level of a node is the length of the
\* longest edge path that ends at it and starts at a root: 0 for a root, 1 + the
\* maximum level of its predecessors otherwise, 0 for a node no root reaches;
\* the node D of the diamond A->B, A->C, B->D, C->D has level 2.
C2_LongestPathLevels ==
    (Levelled /\ ~HasCycle(edges)) =>
        /\ \A id \in NodeIds :
              levels[id] = IF LongestFromRoot(nodes, edges, id) = -1 THEN 0
                           ELSE LongestFromRoot(nodes, edges, id)
        /\ \A id \in NodeIds \cap ReachedIds(nodes, edges) :
              IF id \in RootIds(nodes, edges) THEN levels[id] = 0
              ELSE levels[id] = 1 + Max({levels[e.From] :
                                    e \in {f \in EdgeSet : f.To = id /\ f.From \in DOMAIN levels}})
        /\ \A id \in NodeIds \ ReachedIds(nodes, edges) : levels[id] = 0
        /\ (Len(nodes) = Diamond.n /\ EdgeSet = Diamond.es) => levels[4] = 2

\* C2's case: the diamond, levelled, with its two middle nodes on level 1.
C2_Witness ==
    /\ Levelled
    /\ Len(nodes) = Diamond.n
    /\ EdgeSet = Diamond.es
    /\ levels[2] = 1 /\ levels[3] = 1 /\ levels[4] = 2

\* C4: on every acyclic input the worklist loop is never stopped and its body
\* runs at most DequeueBound times, so the worklist empties and the call goes on.
C4_WorklistTerminates ==
    (dequeues <= DequeueBound /\ LoopNotCapped) \/ HasCycle(edges)

\* C4's case: an acyclic graph whose worklist has emptied after a node was
\* enqueued again (more iterations than nodes).
C4_Witness ==
    /\ ~HasCycle(edges)
    /\ \A e \in EdgeSet : Connects(e)
    /\ pc = "group"
    /\ dequeues > Len(nodes)
    /\ queue = <<>>

\* C5: on a cyclic input the worklist never empties (the call never leaves the
\* loop, the levels keep growing) exactly when a root reaches a node of a cycle;
\* a cyclic input whose cycles no root reaches terminates.
C5_CycleLoopsIffReached ==
    /\ \/ pc = "start"
       \/ pc = "bfs" /\ queue # <<>>
       \/ ~RootReachesCycle(nodes, edges)
    /\ \/ dequeues <= DequeueBound /\ LoopNotCapped
       \/ ~HasCycle(edges)
       \/ RootReachesCycle(nodes, edges)

\* C5's case: a root reaches a cycle and a level has grown to the cap.
C5_Witness ==
    /\ RootReachesCycle(nodes, edges)
    /\ \A e \in EdgeSet : Connects(e)
    /\ pc = "bfs"
    /\ \E id \in DOMAIN levels : levels[id] >= LevelCap
    /\ dequeues > DequeueBound

\* A cyclic graph that no root enters has been laid out.
CycleNotReachedLaidOut ==
    /\ HasCycle(edges)
    /\ \A e \in EdgeSet : Connects(e)
    /\ ~RootReachesCycle(nodes, edges)
    /\ pc = "done"

\* C3: two calls with the same node list, edge list and canvas return the same
\* positions, whatever order the ranges over the level map take: what this call
\* returns is what a call returns that visits the levels in any given order.
C3_SameLayoutTwice ==
    pc = "done" =>
        \A order \in Perms(DOMAIN levelGroups) :
            result = AutoPlacementAlgorithm(grid, nodes, edges, order)

\* C6: edges that name an unknown id are no-ops: the levels and the returned
\* positions are those of the same node list with these edges removed.
C6_UnknownEdgesAreNoOps ==
    LET known == KnownEdges(nodes, edges)
    IN  (Len(nodes) > 0 /\ ~RootReachesCycle(nodes, known)) =>
            /\ Levelled =>
                  \A id \in NodeIds : levels[id] = CalculateLevels(nodes, known)[id]
            /\ pc = "done" =>
                  \E order \in Perms(DOMAIN GroupByLevel(nodes, CalculateLevels(nodes, known))) :
                      result = AutoPlacementAlgorithm(grid, nodes, known, order)

\* The margins around the bounding box of the positions pos on the canvas g.
Margins(g, pos) ==
    LET xs == {pos[id].X : id \in DOMAIN pos}
        ys == {pos[id].Y : id \in DOMAIN pos}
    IN  [left |-> Min(xs), right |-> g.Width - (Max(xs) + g.NodeWidth),
         top |-> Min(ys), bottom |-> g.Height - (Max(ys) + g.NodeHeight)]

CentredX(g, pos) ==
    Abs(Margins(g, pos).left - Margins(g, pos).right) <= 1

CentredY(g, pos) ==
    Abs(Margins(g, pos).top - Margins(g, pos).bottom) <= 1

\* The fine-tuner has run on a non-empty node list.
FineTuned ==
    pc \in {"collect", "done"} /\ Len(nodes) > 0

\* C7: after the fine-tuner the bounding box of the positions is centred in the
\* canvas: left and right margins differ by at most 1, and so do top and bottom.
C7_BoundingBoxCentred ==
    FineTuned => (CentredX(grid, positions) /\ CentredY(grid, positions))

\* No two distinct nodes of the returned list collide.
NoCollision ==
    \A i, j \in 1..Len(result) :
        i # j => ~CheckCollision(grid, result[i].Position, result[j].Position)

\* C8: a non-empty node list without edges is laid out on one row: every node on
\* level 0, the same y, input order left to right at pitch nodeWidth + paddingX,
\* the row horizontally centred, no two nodes colliding.
C8_EdgelessRow ==
    (pc = "done" /\ Len(nodes) > 0 /\ Len(edges) = 0) =>
        /\ \A id \in NodeIds : levels[id] = 0
        /\ \A i \in 1..Len(result) : result[i].Position.Y = result[1].Position.Y
        /\ \A i \in 1..(Len(result) - 1) :
              result[i + 1].Position.X - result[i].Position.X = grid.NodeWidth + grid.PaddingX
        /\ CentredX(grid, positions)
        /\ NoCollision

\* The input is the chain 1 -> 2 -> ... -> k over its k nodes.
IsChain ==
    Len(nodes) > 0 /\ EdgeSet = Chain(Len(nodes)).es /\ Len(edges) = Len(nodes) - 1

\* C9: a chain gets the levels 0, 1, ..., k-1 in chain order, each node alone on
\* its row, nodeHeight + paddingY below the one before, all at the x that centres
\* one node box in the canvas width.
C9_ChainColumn ==
    (pc = "done" /\ IsChain) =>
        /\ \A i \in 1..Len(nodes) : levels[i] = i - 1
        /\ \A i \in 1..(Len(result) - 1) :
              result[i + 1].Position.Y - result[i].Position.Y = grid.NodeHeight + grid.PaddingY
        /\ \A i \in 1..Len(result) :
              /\ result[i].Position.X = result[1].Position.X
              /\ Abs(result[i].Position.X
                     - (grid.Width - (result[i].Position.X + grid.NodeWidth))) <= 1

\* C10: in the layout of an acyclic graph whose edges connect input nodes, every
\* edge points down by at least a row (nodeHeight + paddingY), and two nodes have
\* the same y exactly when they have the same level.
C10_EdgesPointDown ==
    (pc = "done" /\ ~HasCycle(edges) /\ \A e \in EdgeSet : Connects(e)) =>
        /\ \A e \in EdgeSet :
              /\ positions[e.To].Y > positions[e.From].Y
              /\ positions[e.To].Y >= positions[e.From].Y + grid.NodeHeight + grid.PaddingY
        /\ \A a, b \in NodeIds :
              (positions[a].Y = positions[b].Y) <=> (levels[a] = levels[b])

\* C10's case: a laid-out acyclic graph with a node below two predecessors of
\* different levels (one of its edges skips a level).
C10_Witness ==
    /\ pc = "done"
    /\ ~HasCycle(edges)
    /\ \A e \in EdgeSet : Connects(e)
    /\ \E e \in EdgeSet : levels[e.To] > levels[e.From] + 1
    /\ \A id \in NodeIds : result[id].Position = positions[id]

\* ----------------------------------- resolveCollisions on any input positions
\* The largest number of nodes stacked on one point of one level.
MaxStack == 7

ResolverXs == {0, 100, 300}

ResolverYs == {100, 300}

\* k nodes of level 0, all on the origin.
Stacks ==
    {[n |-> k, lv |-> [i \in 1..k |-> 0], pos |-> [i \in 1..k |-> Position(0, 0)]] :
        k \in 1..MaxStack}

\* Two levels of two nodes, every node anywhere on a small lattice.
TwoRows ==
    {[n |-> 4, lv |-> <<0, 0, 1, 1>>, pos |-> p] :
        p \in [1..4 -> {Position(x, y) : x \in ResolverXs, y \in ResolverYs}]}

ResolverInputs ==
    Stacks \cup TwoRows

\* The resolver called on level groups as groupByLevel builds them and on
\* positions of the caller's choice.
ResolverInit ==
    /\ grid \in {NewGrid, CompactGrid}
    /\ \E in \in ResolverInputs :
        /\ nodes = [i \in 1..in.n |-> NodePlacement(i, grid)]
        /\ levels = in.lv
        /\ levelGroups = GroupByLevel(nodes, in.lv)
        /\ positions = in.pos
    /\ edges = <<>>
    /\ pc = "resolve"
    /\ queue = <<>>
    /\ dequeues = 0
    /\ iteration = 0
    /\ visited = {}
    /\ result = <<>>
    /\ NoNewNode
    /\ NoRemoval

ResolverNext ==
    Resolve

ResolverSpec ==
    ResolverInit /\ [][ResolverNext]_vars

\* Two distinct nodes of one level collide at the positions pos.
SameLevelCollision(pos) ==
    \E l \in DOMAIN levelGroups :
        \E i, j \in 1..Len(levelGroups[l]) :
            /\ i # j
            /\ CheckCollision(grid, pos[levelGroups[l][i]], pos[levelGroups[l][j]])

\* The resolver has returned.
Resolved ==
    pc = "minimize"

\* A step of the pass loop: every step of the resolver but its return at
\* maxIterations.
ResolverPass ==
    pc = "resolve" /\ iteration < maxIterations

\* C11: the resolver runs at most 10 passes and stops after the first pass in
\* which no same-level pair collides: a pass that moves a pair is counted and
\* followed by the next, a pass that finds no colliding pair moves nothing and
\* returns, and at the count of 10 the resolver returns without another pass,
\* whatever collides. Whenever it returns before the count of 10, no two
\* nodes of one level collide.
C11_ResolverPasses ==
    [][/\ iteration' <= maxIterations
       /\ (Resolved' /\ iteration' < maxIterations) => ~SameLevelCollision(positions')
       /\ (ResolverPass /\ SameLevelCollision(positions)) =>
            (pc' = "resolve" /\ iteration' = iteration + 1)
       /\ (ResolverPass /\ ~SameLevelCollision(positions)) =>
            (Resolved' /\ positions' = positions /\ iteration' = iteration)
       /\ (pc = "resolve" /\ ~ResolverPass) =>
            (Resolved' /\ positions' = positions)]_vars

\* The resolver has returned after 10 passes that each moved a pair, and two
\* nodes of one level still collide.
C11_Witness ==
    /\ Resolved
    /\ iteration = maxIterations
    /\ SameLevelCollision(positions)

\* C12: the resolver's result is a function of its input alone, whatever the
\* order in which the range over levelGroups visits the levels: every pass
\* moves the nodes to the same positions and finds the same hasCollision for
\* every order of the levels, and the positions the resolver will return,
\* computed with any one order, are the same before and after every step.
C12_ResolverOrderFree ==
    [][(pc = "resolve" /\ iteration < maxIterations) =>
        \A order \in Perms(DOMAIN levelGroups) :
            LET pass == ResolvePass(grid, levelGroups, order, 1,
                                    [positions |-> positions, hasCollision |-> FALSE])
            IN  /\ positions' = pass.positions
                /\ (pc' = "resolve") = pass.hasCollision
                /\ ResolveCollisions(grid, levelGroups, order, iteration', positions')
                     = ResolveCollisions(grid, levelGroups, order, iteration, positions)]_vars

\* The two nodes of a level stand at the distance the resolver pushes a pair to.
PushedApart(l) ==
    Abs(positions[levelGroups[l][1]].X - positions[levelGroups[l][2]].X)
        = 2 * GoDiv(grid.NodeWidth + grid.PaddingX, 2)

\* The resolver has returned after a pass that moved a pair on each of two levels.
C12_Witness ==
    /\ Resolved
    /\ iteration = 1
    /\ DOMAIN levelGroups = {0, 1}
    /\ PushedApart(0)
    /\ PushedApart(1)

\* -------------------------------------------------- CalculateNewNodePosition
\* The check against the first existing node only.
IsPositionOccupiedByFirst(g, x, y, ns) ==
    Len(ns) > 0 /\ CheckCollision(g, Position(x, y), ns[1].Position)

\* Lines 396-404.
IsPositionOccupied(g, x, y, ns) ==
    \E i \in 1..Len(ns) : CheckCollision(g, Position(x, y), ns[i].Position)

\* Lines 349-356: the index of the first existing node with the id, 0 when
\* there is none.
FirstWithID(ns, id) ==
    IF \E i \in 1..Len(ns) : ns[i].ID = id
    THEN Min({i \in 1..Len(ns) : ns[i].ID = id})
    ELSE 0

\* Every id of connectedFrom adds to the count, found or not.
RECURSIVE SumConnectionsCountsMissing(_, _, _, _)
SumConnectionsCountsMissing(ns, from, i, acc) ==
    IF i > Len(from) THEN acc
    ELSE LET k == FirstWithID(ns, from[i])
         IN  IF k = 0
             THEN SumConnectionsCountsMissing(ns, from, i + 1,
                        [acc EXCEPT !.validConnections = @ + 1])
             ELSE SumConnectionsCountsMissing(ns, from, i + 1,
                        [totalX |-> acc.totalX + ns[k].Position.X,
                         totalY |-> acc.totalY + ns[k].Position.Y,
                         validConnections |-> acc.validConnections + 1])

\* Lines 348-357 from the i-th id of connectedFrom on.
RECURSIVE SumConnections(_, _, _, _)
SumConnections(ns, from, i, acc) ==
    IF i > Len(from) THEN acc
    ELSE LET k == FirstWithID(ns, from[i])
         IN  IF k = 0
             THEN SumConnections(ns, from, i + 1, acc)
             ELSE SumConnections(ns, from, i + 1,
                        [totalX |-> acc.totalX + ns[k].Position.X,
                         totalY |-> acc.totalY + ns[k].Position.Y,
                         validConnections |-> acc.validConnections + 1])

\* Lines 345-357.
Connections(ns, from) ==
    SumConnections(ns, from, 1, [totalX |-> 0, totalY |-> 0, validConnections |-> 0])

\* The x of the last existing node instead of the largest.
RightmostXOfLast(ns, i, maxX) ==
    IF Len(ns) = 0 THEN maxX ELSE ns[Len(ns)].Position.X

\* Lines 377-382 from the i-th existing node on.
RECURSIVE RightmostX(_, _, _)
RightmostX(ns, i, maxX) ==
    IF i > Len(ns) THEN maxX
    ELSE RightmostX(ns, i + 1, IF ns[i].Position.X > maxX THEN ns[i].Position.X ELSE maxX)

\* Lines 369 and 389: what one turn of the loop adds to newY.
ShiftY(g) ==
    g.NodeHeight + GoDiv(g.PaddingY, 2)

\* The largest number of existing nodes, and of ids in connectedFrom.
MaxExisting == 3

MaxSources == 2

ExistingXs == {-301, 0, 500}

ExistingYs == {100, 300}

\* The node lists of up to MaxExisting nodes, the i-th with id i, each on a
\* point of a small lattice.
ExistingNodes(g) ==
    UNION {{[i \in 1..k |-> [NodePlacement(i, g) EXCEPT !.Position = p[i]]] :
                p \in [1..k -> {Position(x, y) : x \in ExistingXs, y \in ExistingYs}]} :
           k \in 0..MaxExisting}

\* The lists of up to MaxSources ids, each the id of one of the first two of n
\* existing nodes or unknown (the existing nodes take every position in every
\* order, so any two of them stand for the sources).
SourceLists(n) ==
    UNION {[1..k -> {i \in 1..n : i <= 2} \cup UnknownIds] : k \in 0..MaxSources}

\* A call of CalculateNewNodePosition: on the default canvas with any of the
\* node lists and no edges, on the other canvases with at most one node and
\* with an edge or none (the function does not read its argument edges).
NewNodeInit ==
    /\ grid \in Grids
    /\ nodes \in ExistingNodes(grid)
    /\ \/ grid = NewGrid /\ edges = <<>>
       \/ Len(nodes) <= 1 /\ edges \in {<<>>, <<Edge(1, 2)>>}
    /\ connectedFrom \in SourceLists(Len(nodes))
    /\ newPosition = Position(0, 0)
    /\ shifts = 0
    /\ pc = "newnode"
    /\ levels = EmptyMap
    /\ queue = <<>>
    /\ dequeues = 0
    /\ levelGroups = EmptyMap
    /\ positions = EmptyMap
    /\ iteration = 0
    /\ visited = {}
    /\ result = <<>>
    /\ NoRemoval

\* The first node placed at the canvas width.
PlaceFirstAtWidth ==
    /\ pc = "newnode"
    /\ Len(nodes) = 0
    /\ newPosition' = Position(grid.Width, 100)
    /\ pc' = "returned"
    /\ UNCHANGED <<grid, nodes, edges, levels, queue, dequeues, levelGroups, positions,
                   iteration, visited, result, connectedFrom, shifts, removeVars>>

\* Lines 338-341.
PlaceFirst ==
    /\ pc = "newnode"
    /\ Len(nodes) = 0
    /\ newPosition' = Position(GoDiv(grid.Width, 2), 100)
    /\ pc' = "returned"
    /\ UNCHANGED <<grid, nodes, edges, levels, queue, dequeues, levelGroups, positions,
                   iteration, visited, result, connectedFrom, shifts, removeVars>>

\* Lines 344-365.
PlaceBySources ==
    /\ pc = "newnode"
    /\ Len(nodes) # 0
    /\ Len(connectedFrom) > 0
    /\ LET c == Connections(nodes, connectedFrom)
       IN  /\ c.validConnections > 0
           /\ newPosition' = Position(GoDiv(c.totalX, c.validConnections)
                                        + grid.NodeWidth + grid.PaddingX,
                                      GoDiv(c.totalY, c.validConnections))
    /\ pc' = "occupied"
    /\ UNCHANGED <<grid, nodes, edges, levels, queue, dequeues, levelGroups, positions,
                   iteration, visited, result, connectedFrom, shifts, removeVars>>

\* Lines 376-386, reached with no id in connectedFrom or none of them found.
PlaceRightmost ==
    /\ pc = "newnode"
    /\ Len(nodes) # 0
    /\ Len(connectedFrom) > 0 => Connections(nodes, connectedFrom).validConnections = 0
    /\ newPosition' = Position(RightmostX(nodes, 1, 0) + grid.NodeWidth + grid.PaddingX, 100)
    /\ pc' = "occupied"
    /\ UNCHANGED <<grid, nodes, edges, levels, queue, dequeues, levelGroups, positions,
                   iteration, visited, result, connectedFrom, shifts, removeVars>>

\* Lines 368-370 and 388-390: one turn of the loop.
Shift ==
    /\ pc = "occupied"
    /\ IsPositionOccupied(grid, newPosition.X, newPosition.Y, nodes)
    /\ newPosition' = Position(newPosition.X, newPosition.Y + ShiftY(grid))
    /\ shifts' = shifts + 1
    /\ UNCHANGED <<grid, nodes, edges, pc, levels, queue, dequeues, levelGroups, positions,
                   iteration, visited, result, connectedFrom, removeVars>>

\* Lines 372 and 392.
ReturnPosition ==
    /\ pc = "occupied"
    /\ ~IsPositionOccupied(grid, newPosition.X, newPosition.Y, nodes)
    /\ pc' = "returned"
    /\ UNCHANGED <<grid, nodes, edges, levels, queue, dequeues, levelGroups, positions,
                   iteration, visited, result, newNodeVars, removeVars>>

NewNodeNext ==
    \/ PlaceFirst
    \/ PlaceBySources
    \/ PlaceRightmost
    \/ Shift
    \/ ReturnPosition

NewNodeSpec ==
    NewNodeInit /\ [][NewNodeNext]_vars

\* ------------------------------------------- claims on the new-node placement
\* CalculateNewNodePosition has returned newPosition.
Returned ==
    pc = "returned"

\* The ids of connectedFrom that name an existing node, in their order.
FoundSources ==
    SelectSeq(connectedFrom, LAMBDA id : id \in NodeIds)

\* The existing node with the id (the ids of the existing nodes are distinct).
ExistingNode(id) ==
    nodes[CHOOSE i \in 1..Len(nodes) : nodes[i].ID = id]

RECURSIVE SumX(_)
SumX(ids) ==
    IF ids = <<>> THEN 0 ELSE ExistingNode(Head(ids)).Position.X + SumX(Tail(ids))

RECURSIVE SumY(_)
SumY(ids) ==
    IF ids = <<>> THEN 0 ELSE ExistingNode(Head(ids)).Position.Y + SumY(Tail(ids))

\* The position collides with no existing node.
Free(p) ==
    \A i \in 1..Len(nodes) : ~CheckCollision(grid, p, nodes[i].Position)

\* y is y0 shifted down by the smallest number k >= 0 of steps of
\* nodeHeight + paddingY/2 at which (x, y) collides with no existing node.
SmallestFreeShift(x, y0, y) ==
    \E k \in 0..(2 * Len(nodes)) :
        /\ y = y0 + k * (grid.NodeHeight + GoDiv(grid.PaddingY, 2))
        /\ Free(Position(x, y))
        /\ \A j \in 0..(k - 1) :
              ~Free(Position(x, y0 + j * (grid.NodeHeight + GoDiv(grid.PaddingY, 2))))

\* C13: when at least one id of connectedFrom names an existing node, the new
\* node is placed from the integer mean (avgX, avgY) of the positions of the
\* sources found, the missing ids skipped: x = avgX + nodeWidth + paddingX and
\* y = avgY + k * (nodeHeight + paddingY/2) for the smallest k >= 0 at which
\* the position collides with no existing node. A single source at (500, 300)
\* with nodeWidth 220 and paddingX 60 gives (780, 300).
C13_PlacedBySources ==
    (Returned /\ Len(nodes) > 0 /\ Len(FoundSources) > 0) =>
        LET avgX == GoDiv(SumX(FoundSources), Len(FoundSources))
            avgY == GoDiv(SumY(FoundSources), Len(FoundSources))
        IN  /\ newPosition.X = avgX + grid.NodeWidth + grid.PaddingX
            /\ SmallestFreeShift(newPosition.X, avgY, newPosition.Y)
            /\ (/\ Len(nodes) = 1
                /\ nodes[1].Position = Position(500, 300)
                /\ grid.NodeWidth = 220
                /\ grid.PaddingX = 60) => newPosition = Position(780, 300)

\* A new node placed from one source found and one id skipped, after the loop
\* has shifted it down.
C13_Witness ==
    /\ Returned
    /\ Len(FoundSources) = 1
    /\ Len(connectedFrom) = 2
    /\ shifts > 0

\* C14: with existing nodes and no source found (no id given, or every id
\* missing), the new node is placed right of the rightmost existing node,
\* x = (the largest x of the existing nodes) + nodeWidth + paddingX for any
\* existing positions, and its y starts from 100 and is shifted down while
\* the position collides.
C14_PlacedRightOfRightmost ==
    (Returned /\ Len(nodes) > 0 /\ Len(FoundSources) = 0) =>
        /\ newPosition.X = Max({nodes[i].Position.X : i \in 1..Len(nodes)})
                             + grid.NodeWidth + grid.PaddingX
        /\ SmallestFreeShift(newPosition.X, 100, newPosition.Y)

\* NewNodeSpec with the steps of the call taken as long as one is enabled: the
\* call is sequential code that runs until it returns.
NewNodeFairSpec ==
    NewNodeSpec /\ WF_vars(NewNodeNext)

\* C15: on a grid of positive node size and non-negative paddings the call
\* always returns, each loop over isPositionOccupied running its body at most
\* twice for every existing node, and whenever a node exists the position
\* returned collides with no existing node.
C15_ReturnsFreePosition ==
    /\ <>Returned
    /\ [](shifts <= 2 * Len(nodes))
    /\ []((Returned /\ Len(nodes) > 0) => Free(newPosition))

\* The call has returned after its loop has run twice.
C15_Witness ==
    /\ Returned
    /\ Len(nodes) > 0
    /\ shifts = 2
    /\ grid.NodeWidth > 0 /\ grid.NodeHeight > 0
    /\ grid.PaddingX >= 0 /\ grid.PaddingY >= 0

\* C16: with no existing node the new node is placed at (canvas width / 2, 100),
\* whatever edges and source ids are passed.
C16_FirstNodeAtCentreTop ==
    (Returned /\ Len(nodes) = 0) =>
        newPosition = Position(GoDiv(grid.Width, 2), 100)

\* The first node placed by a call that was passed an edge and source ids.
C16_Witness ==
    /\ Returned
    /\ Len(nodes) = 0
    /\ Len(edges) > 0
    /\ Len(connectedFrom) > 0

\* ---------------------------------------------- the two entry points together
\* A call of AutoPlacementAlgorithm or a call of CalculateNewNodePosition.
EntryPointsInit ==
    Init \/ NewNodeInit

EntryPointsNext ==
    Next \/ NewNodeNext

EntryPointsSpec ==
    EntryPointsInit /\ [][EntryPointsNext]_vars

\* C17: no step of either entry point changes the caller's node list, edge
\* list, canvas or source ids, and the list AutoPlacementAlgorithm returns has
\* the length of the input and, index by index, the input's id, width and
\* height with the position the pipeline computed for that id (an empty input
\* is returned empty).
C17_InputsKeptOutputAligned ==
    [][/\ nodes' = nodes
       /\ edges' = edges
       /\ grid' = grid
       /\ connectedFrom' = connectedFrom
       /\ pc' = "done" =>
            /\ Len(result') = Len(nodes)
            /\ \A i \in 1..Len(nodes) :
                /\ result'[i].ID = nodes[i].ID
                /\ result'[i].Width = nodes[i].Width
                /\ result'[i].Height = nodes[i].Height
                /\ result'[i].Position = positions'[nodes[i].ID]]_vars

\* A layout has been returned whose positions differ from those of the input
\* nodes, node by node.
C17_Witness ==
    /\ pc = "done"
    /\ Len(nodes) >= 2
    /\ \A i \in 1..Len(nodes) : result[i].Position # nodes[i].Position

\* ---------------------------------------------------------- removing a node
\* The largest number of nodes and of edges of a flow.
MaxFlowNodes == 3

MaxFlowEdges == 2

\* The node types of a flow definition.
Kinds ==
    {"request", "delay"}

\* api.FlowNode and api.FlowEdge, by the fields the command reads.
FlowNode(id, kind) ==
    [Id |-> id, Kind |-> kind]

FlowEdge(source, target) ==
    [Source |-> source, Target |-> target]

\* The value of the node's union, by its discriminator.
ValueByDiscriminator(node) ==
    CASE node.Kind = "request" -> [type |-> "RequestFlowNode", Id |-> node.Id]
      [] node.Kind = "delay" -> [type |-> "DelayFlowNode", Id |-> node.Id]
      [] OTHER -> [type |-> "nil", Id |-> node.Id]

\* flow_nodes.go, lines 205-221, from the i-th node on; acc carries newNodes
\* and found.
RECURSIVE RemoveFromNodes(_, _, _, _)
RemoveFromNodes(ns, id, i, acc) ==
    IF i > Len(ns) THEN acc
    ELSE LET n == ValueByDiscriminator(ns[i])
         IN  IF n.type \in {"RequestFlowNode", "DelayFlowNode"}
             THEN IF n.Id # id
                  THEN RemoveFromNodes(ns, id, i + 1,
                           [acc EXCEPT !.newNodes = Append(@, ns[i])])
                  ELSE RemoveFromNodes(ns, id, i + 1, [acc EXCEPT !.found = TRUE])
             ELSE RemoveFromNodes(ns, id, i + 1, acc)

\* The edges that do not start at the node, whatever their target.
RECURSIVE RemoveFromEdgesBySource(_, _, _, _)
RemoveFromEdgesBySource(es, id, i, newEdges) ==
    IF i > Len(es) THEN newEdges
    ELSE RemoveFromEdgesBySource(es, id, i + 1,
            IF es[i].Source # id THEN Append(newEdges, es[i]) ELSE newEdges)

\* flow_nodes.go, lines 230-235, from the i-th edge on.
RECURSIVE RemoveFromEdges(_, _, _, _)
RemoveFromEdges(es, id, i, newEdges) ==
    IF i > Len(es) THEN newEdges
    ELSE RemoveFromEdges(es, id, i + 1,
            IF es[i].Source # id /\ es[i].Target # id
            THEN Append(newEdges, es[i])
            ELSE newEdges)

\* model.go, lines 162-168, from the i-th edge on.
RECURSIVE DeleteEdges(_, _, _, _)
DeleteEdges(es, id, i, newEdges) ==
    IF i > Len(es) THEN newEdges
    ELSE DeleteEdges(es, id, i + 1,
            IF es[i].From # id /\ es[i].To # id THEN Append(newEdges, es[i]) ELSE newEdges)

\* model.go, lines 171-177, from the i-th node on.
RECURSIVE DeleteNodes(_, _, _, _)
DeleteNodes(ns, id, i, newNodes) ==
    IF i > Len(ns) THEN newNodes
    ELSE DeleteNodes(ns, id, i + 1,
            IF ns[i].ID # id THEN Append(newNodes, ns[i]) ELSE newNodes)

\* The sequences of up to MaxFlowEdges pairs of distinct ids of 1..k.
EdgePairs(k) ==
    UNION {[1..m -> {p \in (1..k) \X (1..k) : p[1] # p[2]}] : m \in 0..MaxFlowEdges}

\* A definition the command fetches: nodes 1..k of the given types, and the
\* given edges between them.
FlowDefinition(k, kinds, ps) ==
    [Nodes |-> [i \in 1..k |-> FlowNode(i, kinds[i])],
     Edges |-> [i \in 1..Len(ps) |-> FlowEdge(ps[i][1], ps[i][2])]]

\* A graph of the editor: nodes 1..k and the given edges between them.
FlowGraph(k, ps) ==
    [Nodes |-> [i \in 1..k |-> [ID |-> i]],
     Edges |-> [i \in 1..Len(ps) |-> [From |-> ps[i][1], To |-> ps[i][2]]]]

\* `flows node remove` with the flow fetched, or DeleteNode called on a graph;
\* the id is one of the flow's or the unknown one.
RemoveInit ==
    /\ \E k \in 0..MaxFlowNodes : \E ps \in EdgePairs(k) :
        \/ /\ pc = "remove"
           /\ \E kinds \in [1..k -> Kinds] : flow = FlowDefinition(k, kinds, ps)
        \/ /\ pc = "delete"
           /\ flow = FlowGraph(k, ps)
    /\ nodeID \in (1..Len(flow.Nodes)) \cup UnknownIds
    /\ update = <<>>
    /\ err = ""
    /\ grid = NewGrid
    /\ nodes = <<>>
    /\ edges = <<>>
    /\ levels = EmptyMap
    /\ queue = <<>>
    /\ dequeues = 0
    /\ levelGroups = EmptyMap
    /\ positions = EmptyMap
    /\ iteration = 0
    /\ visited = {}
    /\ result = <<>>
    /\ NoNewNode

\* flow_nodes.go, lines 200-255: the command from the flow it has fetched. The
\* update request either succeeds or fails.
FlowNodeRemove ==
    /\ pc = "remove"
    /\ LET removal == RemoveFromNodes(flow.Nodes, nodeID, 1,
                                      [newNodes |-> <<>>, found |-> FALSE])
       IN  IF ~removal.found
           THEN /\ err' = "node not found"
                /\ update' = update
                /\ pc' = "failed"
           ELSE /\ update' = Append(update,
                        [Nodes |-> removal.newNodes,
                         Edges |-> RemoveFromEdges(flow.Edges, nodeID, 1, <<>>),
                         AutoLayout |-> TRUE])
                /\ \/ err' = "" /\ pc' = "removed"
                   \/ err' = "failed to update flow" /\ pc' = "failed"
    /\ UNCHANGED <<grid, nodes, edges, levels, queue, dequeues, levelGroups, positions,
                   iteration, visited, result, newNodeVars, flow, nodeID>>

\* model.go, lines 160-179.
DeleteNode ==
    /\ pc = "delete"
    /\ flow' = [Nodes |-> DeleteNodes(flow.Nodes, nodeID, 1, <<>>),
                Edges |-> DeleteEdges(flow.Edges, nodeID, 1, <<>>)]
    /\ pc' = "deleted"
    /\ UNCHANGED <<grid, nodes, edges, levels, queue, dequeues, levelGroups, positions,
                   iteration, visited, result, newNodeVars, nodeID, update, err>>

RemoveNext ==
    \/ FlowNodeRemove
    \/ DeleteNode

RemoveSpec ==
    RemoveInit /\ [][RemoveNext]_vars

\* C18: removing the node n yields a definition whose nodes are the flow's
\* nodes other than n and whose edges are the flow's edges with neither end at
\* n, both in their original order: the graph DeleteNode leaves, and the
\* definition the command sends in its one update request; when n is not in
\* the flow the command returns an error and sends no update.
C18_RemovalKeepsTheRest ==
    [][/\ pc = "delete" =>
            /\ flow'.Nodes = SelectSeq(flow.Nodes, LAMBDA n : n.ID # nodeID)
            /\ flow'.Edges = SelectSeq(flow.Edges,
                                       LAMBDA e : e.From # nodeID /\ e.To # nodeID)
       /\ (pc = "remove" /\ \E i \in 1..Len(flow.Nodes) : flow.Nodes[i].Id = nodeID) =>
            /\ Len(update') = 1
            /\ update'[1].Nodes = SelectSeq(flow.Nodes, LAMBDA n : n.Id # nodeID)
            /\ update'[1].Edges = SelectSeq(flow.Edges,
                                       LAMBDA e : e.Source # nodeID /\ e.Target # nodeID)
       /\ (pc = "remove" /\ \A i \in 1..Len(flow.Nodes) : flow.Nodes[i].Id # nodeID) =>
            /\ err' # ""
            /\ update' = <<>>]_vars

\* The command has sent a definition that keeps two nodes and an edge between
\* them and drops an edge of the node removed.
C18_Witness ==
    /\ pc = "removed"
    /\ Len(update) = 1
    /\ Len(update[1].Nodes) = 2
    /\ Len(update[1].Edges) = 1
    /\ Len(flow.Edges) = 2

\* --------------------------------------------- claims on the crossing minimizer
\* C19: the stages after the grouping process the levels in ascending numeric
\* order; in particular, when the crossing minimizer has processed a level L,
\* it has processed every level between 1 and L - 1 before. (The initial
\* positioner sorts the levels, and the resolver's passes do not depend on
\* the order of the levels; the order of the minimizer's range shows in the
\* set of levels it has visited.)
C19_LevelsAscending ==
    pc = "minimize" =>
        \A l \in visited : \A m \in DOMAIN levelGroups : (1 <= m /\ m < l) => m \in visited

\* The edges into u whose source has a position, in the order of the edge list.
PlacedSources(u) ==
    SelectSeq(edges, LAMBDA e : e.To = u /\ e.From \in DOMAIN positions)

RECURSIVE SumSourceX(_)
SumSourceX(es) ==
    IF es = <<>> THEN 0 ELSE positions[Head(es).From].X + SumSourceX(Tail(es))

\* The barycenter score of u at the current positions, as the fraction
\* <<numerator, denominator>>: the mean x of the sources of its incoming
\* edges, its own x when no incoming edge has a placed source.
Barycenter(u) ==
    IF PlacedSources(u) = <<>>
    THEN <<positions[u].X, 1>>
    ELSE <<SumSourceX(PlacedSources(u)), Len(PlacedSources(u))>>

BarycenterBelow(u, v) ==
    Barycenter(u)[1] * Barycenter(v)[2] < Barycenter(v)[1] * Barycenter(u)[2]

\* C20: when the crossing minimizer processes a level other than 0, it leaves
\* the level's nodes ordered left to right by ascending barycenter score, the
\* scores taken at the moment the level is processed: score(u) < score(v)
\* implies x(u) < x(v), and the nodes occupy exactly the slots
\* startX + i * (nodeWidth + paddingX), i from 0 to the level's size - 1.
\* No later step of the minimizer moves the level's nodes.
C20_LevelSortedByBarycenter ==
    [][(pc = "minimize" /\ pc' = "minimize") =>
        /\ \A l \in visited : \A i \in 1..Len(levelGroups[l]) :
              positions'[levelGroups[l][i]] = positions[levelGroups[l][i]]
        /\ \A l \in (visited' \ visited) \ {0} :
              LET row == levelGroups[l]
              IN  /\ \A i, j \in 1..Len(row) :
                        BarycenterBelow(row[i], row[j]) =>
                            positions'[row[i]].X < positions'[row[j]].X
                  /\ {positions'[row[i]].X : i \in 1..Len(row)}
                        = {StartX(grid, Len(row)) + i * (grid.NodeWidth + grid.PaddingX) :
                              i \in 0..(Len(row) - 1)}]_vars

\* The minimizer has processed a level whose nodes it has put in another order
\* than the order of the level's list.
C20_Witness ==
    /\ pc = "minimize"
    /\ \E l \in visited \ {0} : \E i, j \in 1..Len(levelGroups[l]) :
          /\ i < j
          /\ positions[levelGroups[l][i]].X > positions[levelGroups[l][j]].X

\* C21: the crossing minimizer changes only the x of nodes of levels other
\* than 0: every step of it leaves the level groups, the set of positioned ids,
\* the y of every node and the position of every node of level 0 as they were.
C21_MinimizerFrame ==
    [][(pc = "minimize" /\ pc' = "minimize") =>
        /\ levelGroups' = levelGroups
        /\ DOMAIN positions' = DOMAIN positions
        /\ \A id \in DOMAIN positions : positions'[id].Y = positions[id].Y
        /\ 0 \in DOMAIN levelGroups =>
              \A i \in 1..Len(levelGroups[0]) :
                  positions'[levelGroups[0][i]] = positions[levelGroups[0][i]]]_vars

\* The minimizer has visited every level and has moved a node of a level other
\* than 0 away from the x the initial positioner gave it.
C21_Witness ==
    /\ pc = "minimize"
    /\ visited = DOMAIN levelGroups
    /\ 0 \in visited
    /\ \E id \in DOMAIN positions :
          /\ levels[id] # 0
          /\ positions[id].X # CalculateInitialPositions(grid, levelGroups)[id].X

\* ------------------------------------ claims on the positioner and the grouping
\* The initial positioner has just returned.
Positioned ==
    pc = "resolve" /\ iteration = 0

\* C22: the initial positioner gives the node at index i (0-based) of a level
\* of n nodes x = startX + i * (nodeWidth + paddingX) and
\* y = 100 + level * (nodeHeight + paddingY), with
\* startX = max(100, (canvasWidth - (n * nodeWidth + (n - 1) * paddingX)) / 2);
\* every initial x is at least 100 and every input node has a position.
C22_InitialPositions ==
    Positioned =>
        /\ DOMAIN positions = NodeIds
        /\ \A id \in NodeIds : positions[id].X >= 100
        /\ \A l \in DOMAIN levelGroups :
              LET n == Len(levelGroups[l])
                  centred == GoDiv(grid.Width - (n * grid.NodeWidth + (n - 1) * grid.PaddingX), 2)
                  startX == Max({100, centred})
              IN  \A i \in 0..(n - 1) :
                      positions[levelGroups[l][i + 1]]
                        = Position(startX + i * (grid.NodeWidth + grid.PaddingX),
                                   100 + l * (grid.NodeHeight + grid.PaddingY))

\* Positions given to two levels, one of them a row too wide for the canvas
\* (its startX is the clamp) and one not at the clamp.
C22_Witness ==
    /\ Positioned
    /\ \E l \in DOMAIN levelGroups :
          /\ Len(levelGroups[l]) >= 2
          /\ positions[levelGroups[l][1]].X = 100
    /\ \E l \in DOMAIN levelGroups : positions[levelGroups[l][1]].X > 100

\* The places (level, index) of the level groups that hold the id.
PlacesOf(id) ==
    {p \in (DOMAIN levelGroups) \X (1..Len(nodes)) :
        /\ p[2] <= Len(levelGroups[p[1]])
        /\ levelGroups[p[1]][p[2]] = id}

\* The index of the id in the input node list.
InputIndex(id) ==
    CHOOSE i \in 1..Len(nodes) : nodes[i].ID = id

\* C23: the level grouping is a partition of the input nodes: every input id
\* appears exactly once, in the group of its level and in no other group, the
\* groups hold input ids only, and the ids of a group are in the order of the
\* input node list.
C23_GroupingPartitions ==
    pc = "place" =>
        /\ \A id \in NodeIds :
              /\ Cardinality(PlacesOf(id)) = 1
              /\ \A p \in PlacesOf(id) : p[1] = levels[id]
        /\ \A l \in DOMAIN levelGroups :
              /\ Len(levelGroups[l]) <= Len(nodes)
              /\ \A i \in 1..Len(levelGroups[l]) : levelGroups[l][i] \in NodeIds
              /\ \A i, j \in 1..Len(levelGroups[l]) :
                    i < j => InputIndex(levelGroups[l][i]) < InputIndex(levelGroups[l][j])

\* Nodes grouped into two levels, one of them holding two nodes.
C23_Witness ==
    /\ pc = "place"
    /\ Cardinality(DOMAIN levelGroups) >= 2
    /\ \E l \in DOMAIN levelGroups : Len(levelGroups[l]) >= 2

\* ------------------------------------------------- claims on a resolver pair
\* The collision predicate as the claims state it.
Collide(p, q) ==
    /\ Abs(p.X - q.X) < grid.NodeWidth + GoDiv(grid.PaddingX, 2)
    /\ Abs(p.Y - q.Y) < grid.NodeHeight + GoDiv(grid.PaddingY, 2)

\* The positions pos with the pair (a, b) moved apart around its midpoint, a to
\* the left, and nothing else changed.
PairMoved(pos, a, b) ==
    LET midpoint == GoDiv(pos[a].X + pos[b].X, 2)
        half == GoDiv(grid.NodeWidth + grid.PaddingX, 2)
    IN  [id \in DOMAIN pos |->
            IF id = a THEN Position(midpoint - half, pos[a].Y)
            ELSE IF id = b THEN Position(midpoint + half, pos[b].Y)
            ELSE pos[id]]

\* What the claim has the resolver do with the pair (a, b) at the positions pos.
PairResolved(pos, a, b) ==
    IF Collide(pos[a], pos[b]) THEN PairMoved(pos, a, b) ELSE pos

\* C24: in a resolver pass a pair of nodes of one level is moved exactly when
\* it collides, the node listed earlier to midpoint - (nodeWidth + paddingX)/2
\* and the later one to midpoint + (nodeWidth + paddingX)/2, with
\* midpoint = (x1 + x2)/2; both y and every other node stay. Checked at every
\* state of the resolver for every pair of every level, and on every pass over
\* levels of two nodes, where the pass is the treatment of one pair per level.
C24_PairMovedIffColliding ==
    [][pc = "resolve" =>
        /\ \A l \in DOMAIN levelGroups : \A i, j \in 1..Len(levelGroups[l]) :
              i < j =>
                  LET step == ResolvePair(grid, levelGroups[l], i, j,
                                          [positions |-> positions, hasCollision |-> FALSE])
                  IN  /\ step.positions
                            = PairResolved(positions, levelGroups[l][i], levelGroups[l][j])
                      /\ step.hasCollision
                            = Collide(positions[levelGroups[l][i]], positions[levelGroups[l][j]])
        /\ (iteration < maxIterations /\ DOMAIN levelGroups = {0, 1}
              /\ Len(levelGroups[0]) = 2 /\ Len(levelGroups[1]) = 2) =>
              positions' = PairResolved(PairResolved(positions, levelGroups[0][1],
                                                      levelGroups[0][2]),
                                        levelGroups[1][1], levelGroups[1][2])]_vars

\* After one pass the pair of level 0 has been moved apart and the pair of
\* level 1, which did not collide, stands where it stood.
C24_Witness ==
    /\ Resolved
    /\ iteration = 1
    /\ DOMAIN levelGroups = {0, 1}
    /\ PushedApart(0)
    /\ ~PushedApart(1)
    /\ ~Collide(positions[levelGroups[1][1]], positions[levelGroups[1][2]])

\* ------------------------------------------------- claims on the fine-tuner
\* C25: the fine-tuner is a rigid translation: one (dx, dy) is added to every
\* position, so the difference between the positions of any two nodes is the
\* same after the stage as before it.
C25_FineTunerTranslates ==
    [][(pc = "minimize" /\ pc' = "collect") =>
        /\ DOMAIN positions' = DOMAIN positions
        /\ \A a, b \in DOMAIN positions :
              /\ positions'[a].X - positions[a].X = positions'[b].X - positions[b].X
              /\ positions'[a].Y - positions[a].Y = positions'[b].Y - positions[b].Y
              /\ positions'[a].X - positions'[b].X = positions[a].X - positions[b].X
              /\ positions'[a].Y - positions'[b].Y = positions[a].Y - positions[b].Y]_vars

\* The fine-tuner has run on nodes that differ in x and nodes that differ in y.
C25_Witness ==
    /\ pc = "collect"
    /\ \E a, b \in DOMAIN positions : positions[a].X # positions[b].X
    /\ \E a, b \in DOMAIN positions : positions[a].Y # positions[b].Y

\* ------------------------------------------------- claims on the whole layout
\* C26: with positive node sizes and non-negative paddings the returned layout
\* holds no two distinct nodes that collide.
C26_LayoutWithoutCollision ==
    (pc = "done" /\ grid.NodeWidth > 0 /\ grid.NodeHeight > 0
        /\ grid.PaddingX >= 0 /\ grid.PaddingY >= 0) =>
        \A i \in 1..Len(result) : \A j \in (i + 1)..Len(result) :
            ~Collide(result[i].Position, result[j].Position)

\* A layout has been returned with two nodes side by side on one level and a
\* node on another level.
C26_Witness ==
    /\ pc = "done"
    /\ \E i, j, k \in 1..Len(result) :
          /\ i # j
          /\ levels[result[i].ID] = levels[result[j].ID]
          /\ levels[result[k].ID] # levels[result[i].ID]
          /\ result[i].Position.Y = result[j].Position.Y
          /\ result[k].Position.Y # result[i].Position.Y

\* C27: every position of the returned layout has x >= 0 and y >= 0, on every
\* graph and canvas, also when the widest row or the whole height exceeds the
\* canvas.
C27_NonNegativePositions ==
    pc = "done" =>
        \A i \in 1..Len(result) :
            result[i].Position.X >= 0 /\ result[i].Position.Y >= 0

\* ------------------------------------------------- claims on edge crossings
\* The edges both of whose ends have a position.
PlacedEdges(pos) ==
    {i \in 1..Len(edges) : edges[i].From \in DOMAIN pos /\ edges[i].To \in DOMAIN pos}

\* The crossing pairs of edges at the positions pos: p1 -> c1 and p2 -> c2 with
\* x(p1) < x(p2) and x(c1) > x(c2).
CrossingPairs(pos) ==
    {pair \in PlacedEdges(pos) \X PlacedEdges(pos) :
        /\ pos[edges[pair[1]].From].X < pos[edges[pair[2]].From].X
        /\ pos[edges[pair[1]].To].X > pos[edges[pair[2]].To].X}

\* The minimizer has visited every level of a graph whose nodes all lie on the
\* levels 0 and 1, some of them on level 1.
TwoLevelsMinimized ==
    /\ pc = "minimize"
    /\ visited = DOMAIN levelGroups
    /\ DOMAIN levelGroups = {0, 1}

\* Every edge leads from a node of level 0 to a node of level 1, and every node
\* of level 1 has exactly one incoming edge.
SingleParents ==
    /\ \A k \in 1..Len(edges) :
          /\ edges[k].From \in NodeIds /\ levels[edges[k].From] = 0
          /\ edges[k].To \in NodeIds /\ levels[edges[k].To] = 1
    /\ \A i \in 1..Len(levelGroups[1]) :
          Cardinality({k \in 1..Len(edges) : edges[k].To = levelGroups[1][i]}) = 1

\* C28: on a graph all of whose nodes lie on the levels 0 and 1 the number of
\* crossing pairs of edges after the crossing minimizer is not greater than in
\* the layout of the initial positioner.
C28_CrossingsNotIncreased ==
    TwoLevelsMinimized =>
        Cardinality(CrossingPairs(positions))
            <= Cardinality(CrossingPairs(CalculateInitialPositions(grid, levelGroups)))

\* C28 as amended: when moreover every edge leads from level 0 to level 1 and
\* every node of level 1 has exactly one incoming edge, no two edges cross after
\* the minimizer, so the number of crossing pairs is not greater than before it.
C28_SingleParentsUncrossed ==
    (TwoLevelsMinimized /\ SingleParents) =>
        /\ CrossingPairs(positions) = {}
        /\ Cardinality(CrossingPairs(positions))
              <= Cardinality(CrossingPairs(CalculateInitialPositions(grid, levelGroups)))

\* The minimizer has undone a crossing of the initial layout.
C28_Witness ==
    /\ TwoLevelsMinimized
    /\ SingleParents
    /\ CrossingPairs(CalculateInitialPositions(grid, levelGroups)) # {}
    /\ CrossingPairs(positions) = {}

\* ------------------------------------------- claims on the resolver in the call
\* The resolver has just returned: the minimizer has visited no level yet.
ResolverReturned ==
    pc = "minimize" /\ visited = {}

\* C29: inside the whole call, with a non-negative paddingX, the resolver
\* detects no collision: it is entered with the positioner's positions, no two
\* nodes of one level collide in them, and it returns after its first pass,
\* with no pass counted and the positions as the positioner left them.
C29_ResolverIdleInPipeline ==
    grid.PaddingX >= 0 =>
        /\ pc = "resolve" =>
              /\ iteration = 0
              /\ positions = CalculateInitialPositions(grid, levelGroups)
              /\ \A l \in DOMAIN levelGroups : \A i, j \in 1..Len(levelGroups[l]) :
                    i # j => ~Collide(positions[levelGroups[l][i]], positions[levelGroups[l][j]])
        /\ ResolverReturned =>
              /\ iteration = 0
              /\ positions = CalculateInitialPositions(grid, levelGroups)

\* The resolver has returned from a call with two levels, one of them with
\* several nodes.
C29_Witness ==
    /\ ResolverReturned
    /\ iteration = 0
    /\ Cardinality(DOMAIN levelGroups) >= 2
    /\ \E l \in DOMAIN levelGroups : Len(levelGroups[l]) >= 2

\* ------------------------------------------- claims on the rightmost branch
\* The call has taken the branch right of the rightmost existing node.
InRightmostBranch ==
    /\ pc \in {"occupied", "returned"}
    /\ Len(nodes) > 0
    /\ Len(FoundSources) = 0

\* C30: in the branch that places the new node right of the rightmost existing
\* node, with a non-negative paddingX the candidate collides with no existing
\* node, the loop never shifts it down, and the y returned is 100.
C30_RightmostNeverShifted ==
    (InRightmostBranch /\ grid.PaddingX >= 0) =>
        /\ \A i \in 1..Len(nodes) : ~Collide(newPosition, nodes[i].Position)
        /\ shifts = 0
        /\ newPosition.Y = 100

\* The branch has returned with several existing nodes, one of them on the row
\* y = 100, after every id of connectedFrom was missing.
C30_Witness ==
    /\ Returned
    /\ Len(nodes) >= 2
    /\ Len(connectedFrom) > 0
    /\ Len(FoundSources) = 0
    /\ \E i \in 1..Len(nodes) : nodes[i].Position.Y = 100
    /\ newPosition.Y = 100

\* ------------------------------------- what holds beside the refuted claims
\* Every edge of the input connects two input nodes.
EdgesConnect ==
    \A e \in EdgeSet : Connects(e)

\* The canvas is at least as large as the positioner's base offsets, so some
\* position lies within the canvas size.
CanvasHoldsBaseOffset ==
    grid.Width >= 100 /\ grid.Height >= 100

\* The levels rise along every edge of an acyclic graph without unknown ids.
RaiseLevelWhenEdgesConnect ==
    EdgesConnect => C1_EdgesRaiseLevel

\* Edges to an unknown target are no-ops (edges from an unknown source are not).
UnknownTargetsAreNoOps ==
    (\A e \in EdgeSet : e.From \in NodeIds) => C6_UnknownEdgesAreNoOps

\* On such a canvas the fine-tuner centres the bounding box, an edgeless node
\* list is a centred row and a chain a centred column.
CentredOnLargerCanvas ==
    CanvasHoldsBaseOffset =>
        (C7_BoundingBoxCentred /\ C8_EdgelessRow /\ C9_ChainColumn)

\* With an existing node at x >= 0 and no source found, the new node is placed
\* right of the rightmost existing node.
RightOfRightmostFromZero ==
    (\E i \in 1..Len(nodes) : nodes[i].Position.X >= 0) => C14_PlacedRightOfRightmost

\* The bounding box of the returned layout, node sizes included, is no larger
\* than the canvas.
LayoutFits ==
    /\ \A i, j \in 1..Len(result) :
          /\ result[i].Position.X - result[j].Position.X + grid.NodeWidth <= grid.Width
          /\ result[i].Position.Y - result[j].Position.Y + grid.NodeHeight <= grid.Height

\* Beside C27: a layout that fits the canvas has no negative coordinate.
NonNegativeWhenLayoutFits ==
    (pc = "done" /\ LayoutFits) =>
        \A i \in 1..Len(result) :
            result[i].Position.X >= 0 /\ result[i].Position.Y >= 0

\* Beside C27: a row wider than a canvas of at least the base offset starts
\* left of the canvas, at half the excess width.
WideRowStartsLeftOfCanvas ==
    (pc = "done" /\ Len(nodes) > 0 /\ Len(edges) = 0 /\ grid.Width >= 100
        /\ (Len(nodes) * grid.NodeWidth) + ((Len(nodes) - 1) * grid.PaddingX) > grid.Width + 1) =>
        result[1].Position.X < 0

====
